---- MODULE Spec2Model ----
(***************************************************************************)
(* Model of the skychart registry mirror: server.Handler, its              *)
(* synchronisation pass (Handler.Pull) and its query handlers.             *)
(*                                                                         *)
(* Strings that the code splits, searches or compares (chain names, chain  *)
(* identifiers, file names, path names) are sequences of one-character     *)
(* strings, so that strings.Split, strings.Contains and strings.Compare    *)
(* are computed as Go computes them.  Tag values and asset display names,  *)
(* which the code only uses as map keys, are plain strings.                *)
(***************************************************************************)
EXTENDS Integers, Sequences, FiniteSets, TLC

(***************************************************************************)
(* Bounds of the model.                                                    *)
(***************************************************************************)
MaxPasses == 2      \* calls of Pull in one behaviour
MaxTime == 4        \* the clock stops ticking here (in ticks)
MaxCommits == 1     \* commits to the registry in one behaviour
TicksPerSec == 2    \* clock ticks in one second: time.Now() is finer than RFC3339

(***************************************************************************)
(* Program constants.                                                      *)
(***************************************************************************)
StatusOK == 200
StatusNotFound == 404
StatusInternalServerError == 500

DEX == "dex"
PREFERRED == "preferred"
PROPERTIES == "properties"
STATUS == "status"
Dimensions == {DEX, PREFERRED, PROPERTIES, STATUS}

(***************************************************************************)
(* Go strings.                                                             *)
(***************************************************************************)
Code(c) ==
    CASE c = "-" -> 45
      [] c = "." -> 46
      [] c = "a" -> 97
      [] c = "b" -> 98
      [] c = "c" -> 99
      [] c = "d" -> 100
      [] c = "e" -> 101
      [] c = "j" -> 106
      [] c = "m" -> 109
      [] c = "n" -> 110
      [] c = "o" -> 111
      [] c = "s" -> 115
      [] c = "t" -> 116
      [] c = "x" -> 120

\* strings.Compare: -1, 0 or +1, byte-wise lexicographic.
RECURSIVE Compare(_, _)
Compare(a, b) ==
    IF a = <<>> /\ b = <<>> THEN 0
    ELSE IF a = <<>> THEN -1
    ELSE IF b = <<>> THEN 1
    ELSE IF Code(Head(a)) < Code(Head(b)) THEN -1
    ELSE IF Code(Head(a)) > Code(Head(b)) THEN 1
    ELSE Compare(Tail(a), Tail(b))

\* strings.Contains(s, sub)
Contains(s, sub) ==
    \E i \in 1..(Len(s) + 1) :
        /\ i + Len(sub) - 1 <= Len(s)
        /\ SubSeq(s, i, i + Len(sub) - 1) = sub

\* strings.Split(s, sep) for a one-character separator: always at least one token.
RECURSIVE Split(_, _)
Split(s, sep) ==
    IF \A i \in 1..Len(s) : s[i] # sep
    THEN <<s>>
    ELSE LET k == CHOOSE i \in 1..Len(s) :
                      s[i] = sep /\ \A j \in 1..(i - 1) : s[j] # sep
         IN  <<SubSeq(s, 1, k - 1)>> \o Split(SubSeq(s, k + 1, Len(s)), sep)

\* fmt.Sprintf("%s-%s", x, y)
Hyphenate(x, y) == x \o <<"-">> \o y

\* strconv.FormatBool
FormatBool(b) == IF b THEN "true" ELSE "false"

(***************************************************************************)
(* Maps: functions whose domain is the set of keys present.                *)
(***************************************************************************)
EmptyMap == <<>>
Has(m, k) == k \in DOMAIN m
Put(m, k, v) == [x \in (DOMAIN m) \cup {k} |-> IF x = k THEN v ELSE m[x]]

(***************************************************************************)
(* Documents (types.Chain, types.AssetList, types.Path) and the zero       *)
(* values Go returns for a missing map key.                                *)
(***************************************************************************)
NoName == <<>>      \* the Go string ""

Tags(status, preferred, dex, properties) ==
    [Status |-> status, Preferred |-> preferred, Dex |-> dex, Properties |-> properties]

Channel(id, tags) == [Chain1 |-> [ChannelID |-> id], Tags |-> tags]

Path(n1, n2, client, channels) ==
    [Chain1 |-> [ChainName |-> n1, ClientID |-> client],
     Chain2 |-> [ChainName |-> n2],
     Channels |-> channels]

Chain(id, rpc) == [ChainID |-> id, Apis |-> [RPC |-> rpc]]

Asset(display, base) == [Display |-> display, Base |-> base]

AssetList(id, assetSeq) == [ChainID |-> id, Assets |-> assetSeq]

ZeroChain == Chain(NoName, "")
ZeroAssetList == AssetList(NoName, <<>>)
ZeroPath == Path(NoName, NoName, "", <<>>)

(***************************************************************************)
(* The remote registry.  A registry version is what the GitHub endpoints   *)
(* serve at one commit: the two directory listings and the documents.      *)
(***************************************************************************)
NA == <<"a">>
NB == <<"b">>
NC == <<"c">>
NAB == <<"a", "-", "b">>                       \* a chain named "a-b"
NTestnets == <<"t", "e", "s", "t", "n", "e", "t", "s">>
DotJson == <<".", "j", "s", "o", "n">>
IdA == <<"a", "-", "x">>                       \* chain identifiers
IdA2 == <<"a", "-", "x", "x">>
IdB == <<"b", "-", "x">>
IdC == <<"c", "-", "x">>

\* One entry of a directory listing: a JSON object whose "type" and "name"
\* may or may not be strings.
Entry(type, name) == [typeIsString |-> TRUE, type |-> type, nameIsString |-> TRUE, name |-> name]
Dir(name) == Entry("dir", name)
File(name) == Entry("file", name)

PathAB1 == Path(NA, NB, "c1", <<Channel("ch0", Tags("live", TRUE, "osmosis", ""))>>)
PathAB2 == Path(NA, NB, "c2", <<Channel("ch0", Tags("", FALSE, "", "")),
                                Channel("ch1", Tags("live", FALSE, "", "ics20"))>>)
PathABC == Path(NAB, NC, "c3", <<Channel("ch0", Tags("live", TRUE, "", ""))>>)

\* The scenario of the documentation: two chains and the path between them.
Registry1 ==
    [top   |-> <<Dir(NA), Dir(NB), Dir(NTestnets), Dir(<<".", "x">>), File(<<"m", ".", "d">>)>>,
     ibc   |-> <<File(NAB \o DotJson), Dir(NA)>>,
     chain |-> (NA :> Chain(IdA, "rpc1") @@ NB :> Chain(IdB, "rpc1")),
     asset |-> (NA :> AssetList(IdA, <<Asset("atom", "ua")>>)
                @@ NB :> AssetList(IdB, <<Asset("osmo", "ub")>>)),
     path  |-> (NAB :> PathAB1)]

\* Chain b is gone, chain a has a new identifier and no asset list any more,
\* and the path document has been rewritten.
Registry2 ==
    [top   |-> <<Dir(NA)>>,
     ibc   |-> <<File(NAB \o DotJson)>>,
     chain |-> (NA :> Chain(IdA2, "rpc2")),
     asset |-> EmptyMap,
     path  |-> (NAB :> PathAB2)]

\* A chain whose name holds a '-', and a path from it to chain c.  Chain c
\* has an asset list and no chain.json.
Registry3 ==
    [top   |-> <<Dir(NA), Dir(NAB), Dir(NC)>>,
     ibc   |-> <<File(NAB \o DotJson), File(Hyphenate(NAB, NC) \o DotJson)>>,
     chain |-> (NA :> Chain(IdA, "rpc1")),
     asset |-> (NA :> AssetList(IdA, <<Asset("atom", "ua")>>)
                @@ NC :> AssetList(IdC, <<Asset("cc", "uc")>>)),
     path  |-> (NAB :> PathAB1 @@ Hyphenate(NAB, NC) :> PathABC)]

\* A path file whose stripped name holds no '-'.
Registry4 ==
    [top   |-> <<Dir(NA)>>,
     ibc   |-> <<File(<<"a", ".", "b", "-", "c">> \o DotJson)>>,
     chain |-> (NA :> Chain(IdA, "rpc1")),
     asset |-> EmptyMap,
     path  |-> EmptyMap]

\* A listing entry without a "name": the decoded value is nil, not a string.
Nameless(type) == [typeIsString |-> TRUE, type |-> type, nameIsString |-> FALSE, name |-> NoName]

Registry5 ==
    [top   |-> <<Dir(NA), Nameless("dir")>>,
     ibc   |-> <<File(NAB \o DotJson)>>,
     chain |-> (NA :> Chain(IdA, "rpc1")),
     asset |-> EmptyMap,
     path  |-> (NAB :> PathAB1)]

Registries == <<Registry1, Registry2, Registry3, Registry4, Registry5>>

(***************************************************************************)
(* HTTP.  A response is a transport error, or a status with a body that    *)
(* either is the JSON the endpoint is meant to serve or does not decode.   *)
(***************************************************************************)
Response(err, status, valid, body) ==
    [err |-> err, status |-> status, valid |-> valid, body |-> body]

Served(body) == Response(FALSE, StatusOK, TRUE, <<body>>)
NotFound == Response(FALSE, StatusNotFound, FALSE, <<>>)
TransportError == Response(TRUE, 0, FALSE, <<>>)
ServerError == Response(FALSE, StatusInternalServerError, FALSE, <<>>)
Undecodable == Response(FALSE, StatusOK, FALSE, <<>>)

Failures == {TransportError, ServerError, Undecodable}

\* What the raw-file endpoint can answer for a document held in map docs.
FileResponses(docs, name) ==
    {IF Has(docs, name) THEN Served(docs[name]) ELSE NotFound} \cup Failures

\* What a directory-listing endpoint can answer.
ListingResponses(listing) == {Served(listing), NotFound} \cup Failures

\* The same sequence without the StatusNotFound case.
OutcomeStrict(resp) ==
    IF resp.err THEN "error"
    ELSE IF resp.status # StatusOK THEN "error"
    ELSE IF ~resp.valid THEN "error"
    ELSE "ok"

\* The outcome of one "GET, check status, read, unmarshal" sequence:
\* "ok", "notfound" or "error".
Outcome(resp) ==
    IF resp.err THEN "error"
    ELSE IF resp.status = StatusNotFound THEN "notfound"
    ELSE IF resp.status # StatusOK THEN "error"
    ELSE IF ~resp.valid THEN "error"
    ELSE "ok"

(***************************************************************************)
(* State.                                                                  *)
(***************************************************************************)
Procs == {1, 2}     \* goroutines that may call Pull

VARIABLES
    \* server.Handler
    lastUpdated,    \* time of the last pass that returned nil, in ticks
    chains,         \* []string
    assets,         \* []string
    paths,          \* []string
    chainByAsset,   \* asset display name -> chain name
    chainById,      \* chain id -> chain name
    pathsByTag,     \* tag -> value -> []types.Path
    chainList,      \* chain name -> types.Chain
    assetList,      \* chain name -> types.AssetList
    pathList,       \* path name -> types.Path
    \* each call of Pull
    pc,             \* where the call is
    ranged,         \* the slice its current range loop iterates over
    idx,            \* the index of that loop
    crashed,        \* a panic has ended the process
    \* the remote source and the clock
    reg,            \* index of the registry version being served
    lastCommit,     \* time of the newest commit, in seconds
    now,            \* time.Now(), in ticks
    \* a request being served: the copy of the Handler its method received
    seen,
    \* history of the running pass, for stating the properties
    passes,         \* calls of Pull so far
    commits,        \* commits pushed so far
    aborted,        \* a call of Pull has returned an error
    startSnap,      \* the Handler's fields when the pass started
    startTime,      \* the clock when the pass started
    history,        \* what the commit-history query of the pass returned
    fetched,        \* documents the pass has decoded, and the 404s it got
    requests,       \* directory listings and document fetches of the pass
    lastStatus      \* status code of the last response (0: no response)

hvars == <<lastUpdated, chains, assets, paths, chainByAsset, chainById, pathsByTag,
           chainList, assetList, pathList>>
pvars == <<pc, ranged, idx, crashed>>
evars == <<reg, lastCommit, now, commits>>
gvars == <<passes, aborted, startSnap, startTime, history, fetched, requests, lastStatus>>
vars == <<hvars, pvars, evars, seen, gvars>>

\* The fields of the Handler that queries read.
Snapshot ==
    [chains |-> chains, assets |-> assets, paths |-> paths,
     chainByAsset |-> chainByAsset, chainById |-> chainById, pathsByTag |-> pathsByTag,
     chainList |-> chainList, assetList |-> assetList, pathList |-> pathList]

NoSnapshot == [none |-> TRUE]
NoHistory == [ok |-> FALSE, list |-> <<>>]
NoFetched == [chain |-> EmptyMap, asset |-> EmptyMap, path |-> EmptyMap,
              noChain |-> {}, noAsset |-> {}, noPath |-> {},
              top |-> <<>>, regs |-> {}]

\* NewHandler
Init ==
    /\ lastUpdated = 0
    /\ chains = <<>>
    /\ assets = <<>>
    /\ paths = <<>>
    /\ chainByAsset = EmptyMap
    /\ chainById = EmptyMap
    /\ pathsByTag = [d \in Dimensions |-> EmptyMap]
    /\ chainList = EmptyMap
    /\ assetList = EmptyMap
    /\ pathList = EmptyMap
    /\ pc = [p \in Procs |-> "idle"]
    /\ ranged = [p \in Procs |-> <<>>]
    /\ idx = [p \in Procs |-> 0]
    /\ crashed = FALSE
    /\ reg = 1
    /\ lastCommit = 0
    /\ now = TicksPerSec
    /\ seen = NoSnapshot
    /\ passes = 0
    /\ commits = 0
    /\ aborted = FALSE
    /\ startSnap = [p \in Procs |-> NoSnapshot]
    /\ startTime = [p \in Procs |-> 0]
    /\ history = [p \in Procs |-> NoHistory]
    /\ fetched = [p \in Procs |-> NoFetched]
    /\ requests = [p \in Procs |-> 0]
    /\ lastStatus = [p \in Procs |-> 0]

Registry == Registries[reg]

(***************************************************************************)
(* The remote source and the clock.                                        *)
(***************************************************************************)
\* time.Time.Format(time.RFC3339): whole seconds.
FormatRFC3339(t) == t \div TicksPerSec

\* GET /repos/{registry}/commits?since=...: the commits not older than since.
CommitsSince(since) == IF lastCommit >= since THEN <<lastCommit>> ELSE <<>>

Tick ==
    /\ ~crashed
    /\ now < MaxTime
    /\ now' = now + 1
    /\ UNCHANGED <<hvars, pvars, reg, lastCommit, commits, seen, gvars>>

\* A commit to the registry repository; it may leave the mirrored files as they are.
Commit ==
    /\ ~crashed
    /\ commits < MaxCommits
    /\ \E r \in 1..Len(Registries) : reg' = r
    /\ lastCommit' = FormatRFC3339(now)
    /\ commits' = commits + 1
    /\ UNCHANGED <<hvars, pvars, now, seen, gvars>>

(***************************************************************************)
(* Helpers of Pull.                                                        *)
(***************************************************************************)
\* The loop of getChains without its test for a '.' in the name.
RECURSIVE FilterChainsNoDot(_)
FilterChainsNoDot(listing) ==
    IF listing = <<>> THEN [panic |-> FALSE, names |-> <<>>]
    ELSE LET entry == Head(listing)
             rest == FilterChainsNoDot(Tail(listing))
         IN  IF ~entry.typeIsString THEN [panic |-> TRUE, names |-> <<>>]
             ELSE IF entry.type # "dir" THEN rest
             ELSE IF ~entry.nameIsString THEN [panic |-> TRUE, names |-> <<>>]
             ELSE IF Contains(entry.name, NTestnets) THEN rest
             ELSE [panic |-> rest.panic,
                   names |-> IF rest.panic THEN <<>> ELSE <<entry.name>> \o rest.names]

\* The loop of getChains over the decoded listing.  A type assertion on a
\* value that is not a string panics.
RECURSIVE FilterChains(_)
FilterChains(listing) ==
    IF listing = <<>> THEN [panic |-> FALSE, names |-> <<>>]
    ELSE LET entry == Head(listing)
             rest == FilterChains(Tail(listing))
         IN  IF ~entry.typeIsString THEN [panic |-> TRUE, names |-> <<>>]
             ELSE IF entry.type # "dir" THEN rest
             ELSE IF ~entry.nameIsString THEN [panic |-> TRUE, names |-> <<>>]
             ELSE IF Contains(entry.name, NTestnets) THEN rest
             ELSE IF Contains(entry.name, <<".">>) THEN rest
             ELSE [panic |-> rest.panic,
                   names |-> IF rest.panic THEN <<>> ELSE <<entry.name>> \o rest.names]

\* The loop of getPaths over the decoded listing.
RECURSIVE FilterPaths(_)
FilterPaths(listing) ==
    IF listing = <<>> THEN [panic |-> FALSE, names |-> <<>>]
    ELSE LET entry == Head(listing)
             rest == FilterPaths(Tail(listing))
         IN  IF ~entry.typeIsString THEN [panic |-> TRUE, names |-> <<>>]
             ELSE IF entry.type # "file" THEN rest
             ELSE IF ~entry.nameIsString THEN [panic |-> TRUE, names |-> <<>>]
             ELSE IF ~Contains(entry.name, DotJson) THEN rest
             ELSE IF ~Contains(entry.name, <<"-">>) THEN rest
             ELSE [panic |-> rest.panic,
                   names |-> IF rest.panic THEN <<>>
                             ELSE <<Split(entry.name, ".")[1]>> \o rest.names]

getPathName(chain1Name, chain2Name) ==
    IF Compare(chain1Name, chain2Name) = 1
    THEN Hyphenate(chain2Name, chain1Name)
    ELSE Hyphenate(chain1Name, chain2Name)

\* The same append into an index rebuilt with this tag alone.
AppendTagAlone(byTag, tag, value, path) ==
    LET old == IF Has(byTag, tag) THEN byTag[tag] ELSE EmptyMap
    IN  (tag :> Put(old, value, (IF Has(old, value) THEN old[value] ELSE <<>>) \o <<path>>))

\* append(h.pathsByTag[tag][value], path)
AppendTag(byTag, tag, value, path) ==
    [byTag EXCEPT ![tag] =
        Put(@, value, (IF Has(@, value) THEN @[value] ELSE <<>>) \o <<path>>)]

\* The body of getPath's loop for one channel.
IndexChannel(byTag, channel, path) ==
    LET t == channel.Tags
        b1 == IF t.Dex # "" THEN AppendTag(byTag, DEX, t.Dex, path) ELSE byTag
        b2 == AppendTag(b1, PREFERRED, FormatBool(t.Preferred), path)
        b3 == IF t.Properties # "" THEN AppendTag(b2, PROPERTIES, t.Properties, path) ELSE b2
    IN  IF t.Status # "" THEN AppendTag(b3, STATUS, t.Status, path) ELSE b3

\* getPath's loop over path.Channels, from channel i on.
RECURSIVE IndexChannels(_, _, _)
IndexChannels(byTag, path, i) ==
    IF i > Len(path.Channels) THEN byTag
    ELSE IndexChannels(IndexChannel(byTag, path.Channels[i], path), path, i + 1)

\* Pull's inner loop over assetList.Assets.
RECURSIVE IndexAssets(_, _, _)
IndexAssets(byAsset, assetSeq, name) ==
    IF assetSeq = <<>> THEN byAsset
    ELSE IndexAssets(Put(byAsset, Head(assetSeq).Display, name), Tail(assetSeq), name)

\* Pull's loop over h.assetList, visiting its keys in the given order.
RECURSIVE IndexAssetLists(_, _, _, _)
IndexAssetLists(byAsset, byId, lists, order) ==
    IF order = <<>> THEN byAsset
    ELSE LET list == lists[Head(order)]
             name == IF Has(byId, list.ChainID) THEN byId[list.ChainID] ELSE NoName
         IN  IndexAssetLists(IndexAssets(byAsset, list.Assets, name), byId, lists, Tail(order))

\* The orders in which a range over a map with these keys can visit them.
Orders(keys) ==
    {o \in [1..Cardinality(keys) -> keys] : \A i, j \in DOMAIN o : i # j => o[i] # o[j]}

\* recentCommits' result for a decoded commit list.
RecentAlways(body) == TRUE
Recent(body) == Len(body) > 0

\* Where Pull goes when it reaches the loop over h.chains, and the loop over h.paths.
ToPathLoop(ps) ==
    IF ps # <<>> THEN [pc |-> "getPath", ranged |-> ps, idx |-> 1]
    ELSE [pc |-> "index", ranged |-> <<>>, idx |-> 0]

ToChainLoop(cs, ps) ==
    IF cs # <<>> THEN [pc |-> "getChain", ranged |-> cs, idx |-> 1]
    ELSE ToPathLoop(ps)

Goto(p, pos) ==
    /\ pc' = [pc EXCEPT ![p] = pos.pc]
    /\ ranged' = [ranged EXCEPT ![p] = pos.ranged]
    /\ idx' = [idx EXCEPT ![p] = pos.idx]

At(p, label) == [pc |-> label, ranged |-> ranged[p], idx |-> idx[p]]

Request(p) == requests' = [requests EXCEPT ![p] = @ + 1]

Answered(p, resp) == lastStatus' = [lastStatus EXCEPT ![p] = resp.status]

Running(p) == pc[p] \notin {"idle", "panic"}

(***************************************************************************)
(* Handler.Pull, one action per request it sends.                          *)
(***************************************************************************)
\* Pull with the timestamp taken when the pass starts.
PullStartStamping(p) ==
    /\ ~crashed
    /\ pc[p] = "idle"
    /\ passes < MaxPasses
    /\ passes' = passes + 1
    /\ UNCHANGED aborted
    /\ startSnap' = [startSnap EXCEPT ![p] = Snapshot]
    /\ startTime' = [startTime EXCEPT ![p] = now]
    /\ fetched' = [fetched EXCEPT ![p] = NoFetched]
    /\ requests' = [requests EXCEPT ![p] = 0]
    /\ lastUpdated' = now
    /\ \E resp \in {Served(CommitsSince(FormatRFC3339(lastUpdated))), NotFound} \cup Failures :
          /\ Answered(p, resp)
          /\ IF resp.err \/ resp.status # StatusOK \/ ~resp.valid
             THEN /\ Goto(p, At(p, "ret_err"))
                  /\ history' = [history EXCEPT ![p] = NoHistory]
             ELSE /\ history' = [history EXCEPT ![p] = [ok |-> TRUE, list |-> resp.body[1]]]
                  /\ IF Recent(resp.body[1])
                     THEN Goto(p, At(p, "getChains"))
                     ELSE Goto(p, At(p, "stale"))
    /\ UNCHANGED <<chains, assets, paths, chainByAsset, chainById, pathsByTag,
                   chainList, assetList, pathList, crashed, evars, seen>>

\* Pull is called; recentCommits queries the commit history.
PullStart(p) ==
    /\ ~crashed
    /\ pc[p] = "idle"
    /\ passes < MaxPasses
    /\ passes' = passes + 1
    /\ UNCHANGED aborted
    /\ startSnap' = [startSnap EXCEPT ![p] = Snapshot]
    /\ startTime' = [startTime EXCEPT ![p] = now]
    /\ fetched' = [fetched EXCEPT ![p] = NoFetched]
    /\ requests' = [requests EXCEPT ![p] = 0]
    /\ \E resp \in {Served(CommitsSince(FormatRFC3339(lastUpdated))), NotFound} \cup Failures :
          /\ Answered(p, resp)
          /\ IF resp.err \/ resp.status # StatusOK \/ ~resp.valid
             THEN /\ Goto(p, At(p, "ret_err"))
                  /\ history' = [history EXCEPT ![p] = NoHistory]
             ELSE /\ history' = [history EXCEPT ![p] = [ok |-> TRUE, list |-> resp.body[1]]]
                  /\ IF Recent(resp.body[1])
                     THEN Goto(p, At(p, "getChains"))
                     ELSE Goto(p, At(p, "stale"))
    /\ UNCHANGED <<hvars, crashed, evars, seen>>

\* No recent commit: Pull records the time and returns nil.
Stale(p) ==
    /\ ~crashed
    /\ pc[p] = "stale"
    /\ lastUpdated' = now
    /\ Goto(p, At(p, "ret_ok"))
    /\ UNCHANGED <<chains, assets, paths, chainByAsset, chainById, pathsByTag,
                   chainList, assetList, pathList, crashed, evars, seen, gvars>>

GetChains(p) ==
    /\ ~crashed
    /\ pc[p] = "getChains"
    /\ Request(p)
    /\ \E resp \in ListingResponses(Registry.top) :
          /\ Answered(p, resp)
          /\ IF resp.err \/ resp.status # StatusOK \/ ~resp.valid
             THEN /\ Goto(p, At(p, "ret_err"))
                  /\ UNCHANGED <<chains, crashed, fetched>>
             ELSE LET r == FilterChains(resp.body[1])
                  IN  /\ fetched' = [fetched EXCEPT ![p].top = resp.body[1],
                                                     ![p].regs = @ \cup {reg}]
                      /\ IF r.panic
                         THEN /\ Goto(p, At(p, "panic"))
                              /\ crashed' = TRUE
                              /\ UNCHANGED chains
                         ELSE /\ chains' = r.names
                              /\ Goto(p, At(p, "getPaths"))
                              /\ UNCHANGED crashed
    /\ UNCHANGED <<lastUpdated, assets, paths, chainByAsset, chainById, pathsByTag,
                   chainList, assetList, pathList, evars, seen,
                   passes, aborted, startSnap, startTime, history>>

GetPaths(p) ==
    /\ ~crashed
    /\ pc[p] = "getPaths"
    /\ Request(p)
    /\ \E resp \in ListingResponses(Registry.ibc) :
          /\ Answered(p, resp)
          /\ IF resp.err \/ resp.status # StatusOK \/ ~resp.valid
             THEN /\ Goto(p, At(p, "ret_err"))
                  /\ UNCHANGED <<paths, crashed, fetched>>
             ELSE LET r == FilterPaths(resp.body[1])
                  IN  /\ fetched' = [fetched EXCEPT ![p].regs = @ \cup {reg}]
                      /\ IF r.panic
                         THEN /\ Goto(p, At(p, "panic"))
                              /\ crashed' = TRUE
                              /\ UNCHANGED paths
                         ELSE /\ paths' = r.names
                              /\ Goto(p, ToChainLoop(chains, r.names))
                              /\ UNCHANGED crashed
    /\ UNCHANGED <<lastUpdated, chains, assets, chainByAsset, chainById, pathsByTag,
                   chainList, assetList, pathList, evars, seen,
                   passes, aborted, startSnap, startTime, history>>

GetChain(p) ==
    /\ ~crashed
    /\ pc[p] = "getChain"
    /\ Request(p)
    /\ LET name == ranged[p][idx[p]]
       IN  \E resp \in FileResponses(Registry.chain, name) :
              /\ Answered(p, resp)
              /\ CASE Outcome(resp) = "error" ->
                        /\ Goto(p, At(p, "ret_err"))
                        /\ UNCHANGED <<chainList, chainById, fetched>>
                   [] Outcome(resp) = "notfound" ->
                        /\ Goto(p, At(p, "getAssetList"))
                        /\ fetched' = [fetched EXCEPT ![p].noChain = @ \cup {name},
                                                       ![p].regs = @ \cup {reg}]
                        /\ UNCHANGED <<chainList, chainById>>
                   [] Outcome(resp) = "ok" ->
                        LET chain == resp.body[1]
                        IN  /\ chainList' = Put(chainList, name, chain)
                            /\ chainById' = Put(chainById, chain.ChainID, name)
                            /\ fetched' = [fetched EXCEPT ![p].chain = Put(@, name, chain),
                                                           ![p].regs = @ \cup {reg}]
                            /\ Goto(p, At(p, "getAssetList"))
    /\ UNCHANGED <<lastUpdated, chains, assets, paths, chainByAsset, pathsByTag,
                   assetList, pathList, crashed, evars, seen,
                   passes, aborted, startSnap, startTime, history>>

GetAssetList(p) ==
    /\ ~crashed
    /\ pc[p] = "getAssetList"
    /\ Request(p)
    /\ LET name == ranged[p][idx[p]]
           next == IF idx[p] < Len(ranged[p])
                   THEN [pc |-> "getChain", ranged |-> ranged[p], idx |-> idx[p] + 1]
                   ELSE ToPathLoop(paths)
       IN  \E resp \in FileResponses(Registry.asset, name) :
              /\ Answered(p, resp)
              /\ CASE Outcome(resp) = "error" ->
                        /\ Goto(p, At(p, "ret_err"))
                        /\ UNCHANGED <<assetList, fetched>>
                   [] Outcome(resp) = "notfound" ->
                        /\ Goto(p, next)
                        /\ fetched' = [fetched EXCEPT ![p].noAsset = @ \cup {name},
                                                       ![p].regs = @ \cup {reg}]
                        /\ UNCHANGED assetList
                   [] Outcome(resp) = "ok" ->
                        /\ assetList' = Put(assetList, name, resp.body[1])
                        /\ fetched' = [fetched EXCEPT ![p].asset = Put(@, name, resp.body[1]),
                                                       ![p].regs = @ \cup {reg}]
                        /\ Goto(p, next)
    /\ UNCHANGED <<lastUpdated, chains, assets, paths, chainByAsset, chainById, pathsByTag,
                   chainList, pathList, crashed, evars, seen,
                   passes, aborted, startSnap, startTime, history>>

\* One iteration of Pull's loop over h.paths: the split, then getPath.
GetPath(p) ==
    /\ ~crashed
    /\ pc[p] = "getPath"
    /\ LET names == Split(ranged[p][idx[p]], "-")
           next == IF idx[p] < Len(ranged[p])
                   THEN [pc |-> "getPath", ranged |-> ranged[p], idx |-> idx[p] + 1]
                   ELSE [pc |-> "index", ranged |-> <<>>, idx |-> 0]
       IN  IF Len(names) < 2
           THEN \* names[1]: index out of range
                /\ Goto(p, At(p, "panic"))
                /\ crashed' = TRUE
                /\ UNCHANGED <<pathList, pathsByTag, fetched, requests, lastStatus>>
           ELSE LET name == getPathName(names[1], names[2])
                IN  /\ Request(p)
                    /\ UNCHANGED crashed
                    /\ \E resp \in FileResponses(Registry.path, name) :
                          /\ Answered(p, resp)
                          /\ CASE Outcome(resp) = "error" ->
                                    /\ Goto(p, At(p, "ret_err"))
                                    /\ UNCHANGED <<pathList, pathsByTag, fetched>>
                               [] Outcome(resp) = "notfound" ->
                                    /\ Goto(p, next)
                                    /\ fetched' = [fetched EXCEPT ![p].noPath = @ \cup {name},
                                                                   ![p].regs = @ \cup {reg}]
                                    /\ UNCHANGED <<pathList, pathsByTag>>
                               [] Outcome(resp) = "ok" ->
                                    LET path == resp.body[1]
                                    IN  /\ pathList' = Put(pathList, name, path)
                                        /\ pathsByTag' = IndexChannels(pathsByTag, path, 1)
                                        /\ fetched' = [fetched EXCEPT ![p].path = Put(@, name, path),
                                                                       ![p].regs = @ \cup {reg}]
                                        /\ Goto(p, next)
    /\ UNCHANGED <<lastUpdated, chains, assets, paths, chainByAsset, chainById,
                   chainList, assetList, evars, seen, passes, aborted, startSnap, startTime, history>>

\* "Index assets by display", then the timestamp.
IndexAndStamp(p) ==
    /\ ~crashed
    /\ pc[p] = "index"
    /\ \E order \in Orders(DOMAIN assetList) :
          chainByAsset' = IndexAssetLists(chainByAsset, chainById, assetList, order)
    /\ lastUpdated' = now
    /\ Goto(p, At(p, "ret_ok"))
    /\ UNCHANGED <<chains, assets, paths, chainById, pathsByTag,
                   chainList, assetList, pathList, crashed, evars, seen, gvars>>

\* Pull returns to its caller.
Return(p) ==
    /\ ~crashed
    /\ pc[p] \in {"ret_ok", "ret_err"}
    /\ Goto(p, [pc |-> "idle", ranged |-> <<>>, idx |-> 0])
    /\ startSnap' = [startSnap EXCEPT ![p] = NoSnapshot]
    /\ startTime' = [startTime EXCEPT ![p] = 0]
    /\ history' = [history EXCEPT ![p] = NoHistory]
    /\ fetched' = [fetched EXCEPT ![p] = NoFetched]
    /\ requests' = [requests EXCEPT ![p] = 0]
    /\ lastStatus' = [lastStatus EXCEPT ![p] = 0]
    /\ aborted' = (aborted \/ pc[p] = "ret_err")
    /\ UNCHANGED <<hvars, crashed, evars, seen, passes>>

Pull(p) ==
    \/ PullStart(p)
    \/ Stale(p)
    \/ GetChains(p)
    \/ GetPaths(p)
    \/ GetChain(p)
    \/ GetAssetList(p)
    \/ GetPath(p)
    \/ IndexAndStamp(p)
    \/ Return(p)

(***************************************************************************)
(* Requests.  Every handler has a value receiver: it works on the copy of  *)
(* the Handler made when it is called.                                     *)
(***************************************************************************)
Query ==
    /\ ~crashed
    /\ seen = NoSnapshot
    /\ seen' = [none |-> FALSE,
                during |-> IF \E p \in Procs : Running(p) THEN passes ELSE 0,
                h |-> Snapshot]
    /\ UNCHANGED <<hvars, pvars, evars, gvars>>

Respond ==
    /\ seen # NoSnapshot
    /\ seen' = NoSnapshot
    /\ UNCHANGED <<hvars, pvars, evars, gvars>>

\* One goroutine calls Pull again and again while the registry and the clock move.
Next ==
    \/ Pull(1)
    \/ Commit
    \/ Tick

Spec == Init /\ [][Next]_vars

\* The same, with requests being served meanwhile.
NextServing ==
    \/ Pull(1)
    \/ Commit
    \/ Query
    \/ Respond

SpecServing == Init /\ [][NextServing]_vars

\* One goroutine calling Pull while the registry changes, the clock standing
\* still.  A request can be served in any state of it: a handler works on
\* the Handler's fields as they are then.
NextPulling ==
    \/ Pull(1)
    \/ Commit

SpecPulling == Init /\ [][NextPulling]_vars

\* Pull called from two goroutines.
NextConcurrent ==
    \/ \E p \in Procs : Pull(p)
    \/ Commit

SpecConcurrent == Init /\ [][NextConcurrent]_vars

(***************************************************************************)
(* The query handlers, as functions of the Handler copy h they receive     *)
(* and of the route variables of the request.  A handler's result is the   *)
(* sequence of writes it makes to the http.ResponseWriter.                 *)
(***************************************************************************)
Write(kind, payload) == [kind |-> kind, payload |-> payload]
BadRequest == Write("badRequest", <<>>)
ResourceNotFound == Write("resourceNotFound", <<>>)
RespondWithJSON(payload) == Write("json", <<payload>>)
Panicked == Write("panic", <<>>)

\* m[k], with Go's zero value for a missing key.
Lookup(m, k, zero) == IF Has(m, k) THEN m[k] ELSE zero

\* findChain without its test that the key is a chain identifier.
findChainNoCheck(h, name) ==
    IF Has(h.chainList, name)
    THEN [exists |-> TRUE, chain |-> h.chainList[name]]
    ELSE [exists |-> TRUE,
          chain |-> Lookup(h.chainList, Lookup(h.chainById, name, NoName), ZeroChain)]

findChain(h, name) ==
    IF Has(h.chainList, name)
    THEN [exists |-> TRUE, chain |-> h.chainList[name]]
    ELSE IF ~Has(h.chainById, name)
    THEN [exists |-> FALSE, chain |-> ZeroChain]
    ELSE [exists |-> TRUE, chain |-> Lookup(h.chainList, h.chainById[name], ZeroChain)]

findPath(h, name) ==
    IF ~Has(h.pathList, name)
    THEN [exists |-> FALSE, path |-> ZeroPath]
    ELSE [exists |-> TRUE, path |-> h.pathList[name]]

\* Handler.Chains
ChainsHandler(h) == <<RespondWithJSON(h.chains)>>

\* Handler.Chain
ChainHandler(h, routeVars) ==
    IF ~Has(routeVars, "chain") THEN <<BadRequest>>
    ELSE LET found == findChain(h, routeVars["chain"])
         IN  IF ~found.exists THEN <<ResourceNotFound>>
             ELSE <<RespondWithJSON(found.chain)>>

\* Handler.ChainAsset
ChainAssetHandler(h, routeVars) ==
    IF ~Has(routeVars, "chain") THEN <<BadRequest>>
    ELSE LET chainName == routeVars["chain"]
         IN  IF Has(h.assetList, chainName)
             THEN <<RespondWithJSON(h.assetList[chainName])>>
             ELSE IF ~Has(h.chainById, chainName)
             THEN \* badRequest without a return: the zero name is looked up and written
                  <<BadRequest, RespondWithJSON(Lookup(h.assetList, NoName, ZeroAssetList))>>
             ELSE <<RespondWithJSON(Lookup(h.assetList, h.chainById[chainName], ZeroAssetList))>>

\* Handler.Asset: the first asset of the owning chain's list with this display name.
AssetHandler(h, routeVars) ==
    IF ~Has(routeVars, "asset") THEN <<BadRequest>>
    ELSE LET assetName == routeVars["asset"]
         IN  IF ~Has(h.chainByAsset, assetName) THEN <<ResourceNotFound>>
             ELSE LET list == Lookup(h.assetList, h.chainByAsset[assetName], ZeroAssetList)
                      hits == {i \in DOMAIN list.Assets : list.Assets[i].Display = assetName}
                  IN  IF hits = {} THEN <<ResourceNotFound>>
                      ELSE <<RespondWithJSON(list.Assets[CHOOSE i \in hits : \A j \in hits : i <= j])>>

\* Handler.Path
PathHandler(h, routeVars) ==
    IF ~Has(routeVars, "path") THEN <<BadRequest>>
    ELSE LET chainNames == Split(routeVars["path"], "-")
         IN  IF Len(chainNames) < 2 THEN <<Panicked>>
             ELSE LET found == findPath(h, getPathName(chainNames[1], chainNames[2]))
                  IN  IF ~found.exists THEN <<ResourceNotFound>>
                      ELSE <<RespondWithJSON(found.path)>>

\* The values of a map, as the set a range over it visits.
Values(m) == {m[k] : k \in DOMAIN m}

\* Handler.Paths: the paths in the order of a range over h.pathList, here
\* as their set.
PathsHandler(h) == <<RespondWithJSON(Values(h.pathList))>>

\* getPathsWithTag without its test of an empty value.
getPathsWithTagNoEmpty(h, tag, value) ==
    IF ~Has(h.pathsByTag, tag)
    THEN [panic |-> TRUE, all |-> FALSE, set |-> {}, list |-> <<>>]
    ELSE [panic |-> FALSE, all |-> FALSE, set |-> {},
          list |-> Lookup(h.pathsByTag[tag], value, <<>>)]

\* Handler.getPathsWithTag.  With an empty value the result is built by a
\* range over h.pathList: the paths in some order, here as their set.
getPathsWithTag(h, tag, value) ==
    IF value = "" THEN [panic |-> FALSE, all |-> TRUE, set |-> Values(h.pathList), list |-> <<>>]
    ELSE IF ~Has(h.pathsByTag, tag)
    THEN [panic |-> TRUE, all |-> FALSE, set |-> {}, list |-> <<>>]
    ELSE [panic |-> FALSE, all |-> FALSE, set |-> {},
          list |-> Lookup(h.pathsByTag[tag], value, <<>>)]

Vars(name, value) == (name :> value)

\* What a handler writes for the result of getPathsWithTag.
Returned(r) ==
    IF r.panic THEN <<Panicked>>
    ELSE IF r.all THEN <<RespondWithJSON(r.set)>>
    ELSE <<RespondWithJSON(r.list)>>

\* Handler.PathsFiltered
PathsFilteredHandler(h, routeVars) ==
    IF Has(routeVars, "dex") THEN Returned(getPathsWithTag(h, "dex", routeVars["dex"]))
    ELSE IF Has(routeVars, "preferred")
    THEN Returned(getPathsWithTag(h, "preferred", routeVars["preferred"]))
    ELSE IF Has(routeVars, "properties")
    THEN Returned(getPathsWithTag(h, "properties", routeVars["properties"]))
    ELSE IF Has(routeVars, "status")
    THEN Returned(getPathsWithTag(h, "status", routeVars["status"]))
    ELSE <<RespondWithJSON(<<>>)>>

\* mux.Vars(req): any of these variables, each with an empty value or "live".
RouteVars ==
    UNION {[names -> {"", "live"}] :
              names \in SUBSET {"dex", "preferred", "properties", "status", "other"}}

(***************************************************************************)
(* Properties.                                                             *)
(***************************************************************************)
Range(seq) == {seq[i] : i \in DOMAIN seq}

\* C1: a pass that returns an error leaves every field of the snapshot as
\* it was when the pass started.
C1_AbortLeavesSnapshotUntouched ==
    pc[1] = "ret_err" => Snapshot = startSnap[1]

\* C2: a request served while a pass is running has seen either the
\* snapshot from before the pass or the snapshot the pass ends with.
C2_ReaderSeesOldOrNew ==
    (pc[1] = "ret_ok" /\ seen # NoSnapshot /\ seen.during = passes)
        => seen.h \in {startSnap[1], Snapshot}

\* C3: two calls of Pull are never inside Pull at the same time.
C3_PassesNeverInterleave ==
    ~(Running(1) /\ Running(2))

\* C4: when the commit-history query returns an empty list the pass sends
\* no listing or document request, changes no field of the snapshot, and
\* returns nil with the timestamp set to the time of the attempt.
C4_StalenessShortCircuit ==
    (history[1].ok /\ history[1].list = <<>>)
        => /\ pc[1] \in {"stale", "ret_ok"}
           /\ requests[1] = 0
           /\ Snapshot = startSnap[1]
           /\ pc[1] = "ret_ok" => (startTime[1] <= lastUpdated /\ lastUpdated <= now)

C4_Witness ==
    /\ pc[1] = "ret_ok"
    /\ history[1].ok /\ history[1].list = <<>>
    /\ pathList # EmptyMap /\ chains # <<>>
    /\ startTime[1] < lastUpdated

\* Keys a request may carry: the chain names and identifiers of the
\* registry versions, and one that is neither.
Keys == {NA, NB, NC, NAB, IdA, IdA2, IdB, <<"x">>}

\* C5: getPathName gives the same name for (a, b) and (b, a), smaller name
\* first, and the path query answers "a-b" and "b-a" alike, for all chain
\* names a and b of the chain listing.
C5_PathQuerySymmetric ==
    seen # NoSnapshot =>
        \A a, b \in Range(seen.h.chains) :
            /\ getPathName(a, b) = getPathName(b, a)
            /\ getPathName(a, b) = (IF Compare(a, b) <= 0 THEN Hyphenate(a, b) ELSE Hyphenate(b, a))
            /\ PathHandler(seen.h, Vars("path", Hyphenate(a, b)))
                   = PathHandler(seen.h, Vars("path", Hyphenate(b, a)))

\* The canonical name of a Path document.
CanonicalName(path) == getPathName(path.Chain1.ChainName, path.Chain2.ChainName)

\* Every path name of the listing has the shape chain1-chain2.
TwoNamePaths == \A n \in Range(paths) : Len(Split(n, "-")) = 2

\* C6: after passes that all succeeded, over path names of the shape
\* chain1-chain2, every Path in a tag bucket is the Path the path-by-name
\* index holds under that Path's canonical name.
C6_TagBucketsHoldCurrentPaths ==
    (pc[1] = "ret_ok" /\ ~aborted /\ TwoNamePaths) =>
        \A d \in Dimensions : \A v \in DOMAIN pathsByTag[d] :
            \A i \in DOMAIN pathsByTag[d][v] :
                LET path == pathsByTag[d][v][i]
                IN  /\ Has(pathList, CanonicalName(path))
                    /\ pathList[CanonicalName(path)] = path

\* C7: the chain query and the asset-list query answer a chain's name and
\* its identifier with the same document, and answer a key that is neither
\* a chain name nor a chain identifier with not-found and nothing else.
C7_TwoStageKeyResolution ==
    seen # NoSnapshot =>
        LET h == seen.h
        IN  /\ \A name \in DOMAIN h.chainList :
                  ChainHandler(h, Vars("chain", h.chainList[name].ChainID))
                      = ChainHandler(h, Vars("chain", name))
            /\ \A name \in DOMAIN h.assetList :
                  ChainAssetHandler(h, Vars("chain", h.assetList[name].ChainID))
                      = ChainAssetHandler(h, Vars("chain", name))
            /\ \A key \in Keys :
                  (/\ key \notin Range(h.chains)
                   /\ key \notin (DOMAIN h.chainList) \cup (DOMAIN h.assetList)
                   /\ key \notin DOMAIN h.chainById)
                      => /\ ChainHandler(h, Vars("chain", key)) = <<ResourceNotFound>>
                         /\ ChainAssetHandler(h, Vars("chain", key)) = <<ResourceNotFound>>

\* C8: after a successful pass, first or later with no failed pass before it, in which a chain's chain.json was read and
\* its assetlist.json was not found, the chain is listed and in chainById,
\* no asset maps to it and it has no asset list.
C8_TolerantAbsence ==
    (pc[1] = "ret_ok" /\ ~aborted) =>
        \A c \in fetched[1].noAsset \cap DOMAIN fetched[1].chain :
            /\ c \in Range(chains)
            /\ \E id \in DOMAIN chainById : chainById[id] = c
            /\ \A display \in DOMAIN chainByAsset : chainByAsset[display] # c
            /\ ~Has(assetList, c)

\* C9: after a successful full pass that no failed pass precedes, the document maps, chainById and
\* chainByAsset hold exactly what the documents read in that pass give.
C9_SnapshotReplacedWholesale ==
    (pc[1] = "ret_ok" /\ ~aborted /\ history[1].ok /\ history[1].list # <<>>) =>
        /\ chainList = fetched[1].chain
        /\ assetList = fetched[1].asset
        /\ pathList = fetched[1].path
        /\ DOMAIN chainById = {fetched[1].chain[c].ChainID : c \in DOMAIN fetched[1].chain}
        /\ DOMAIN chainByAsset =
               UNION {{a.Display : a \in Range(fetched[1].asset[c].Assets)} :
                         c \in DOMAIN fetched[1].asset}

\* Path documents and tag values of the registry versions.
KnownPaths == UNION {Values(Registries[r].path) : r \in DOMAIN Registries}

TagValue(channel, d) ==
    CASE d = DEX -> channel.Tags.Dex
      [] d = PREFERRED -> FormatBool(channel.Tags.Preferred)
      [] d = PROPERTIES -> channel.Tags.Properties
      [] d = STATUS -> channel.Tags.Status

KnownTagValues ==
    UNION {{TagValue(path.Channels[i], d) : i \in DOMAIN path.Channels, d \in Dimensions} :
              path \in KnownPaths} \ {""}

Count(seq, x) == Cardinality({i \in DOMAIN seq : seq[i] = x})

\* C10: after a successful full pass that no failed pass precedes, over path names of the shape
\* chain1-chain2, a Path is in the answer of the filtered query for (d, v)
\* once for each of its channels tagged d = v in the documents just read,
\* and a Path not read in the pass is not in it.
C10_TagBucketCounts ==
    (/\ pc[1] = "ret_ok" /\ ~aborted /\ history[1].ok /\ history[1].list # <<>>
     /\ TwoNamePaths /\ \A n \in Range(startSnap[1].paths) : Len(Split(n, "-")) = 2)
        => \A d \in Dimensions : \A v \in KnownTagValues : \A path \in KnownPaths :
              Count(getPathsWithTag(Snapshot, d, v).list, path)
                  = IF path \in Values(fetched[1].path)
                    THEN Cardinality({i \in DOMAIN path.Channels :
                                         TagValue(path.Channels[i], d) = v})
                    ELSE 0

\* What the current registry version gives for the listings and the chain
\* documents of the snapshot.
ReflectsRegistry ==
    /\ chains = FilterChains(Registry.top).names
    /\ paths = FilterPaths(Registry.ibc).names
    /\ \A c \in Range(chains) \cap DOMAIN Registry.chain :
           Has(chainList, c) /\ chainList[c] = Registry.chain[c]

\* C11: no commit falls before the recorded timestamp without having been
\* read: when the staleness check of a pass reports no new activity, the
\* snapshot already reflects the registry as it is.
C11_NoCommitMissed ==
    [][(pc[1] = "idle" /\ pc'[1] = "stale") => ReflectsRegistry]_vars

\* C12: a pass never ends in a panic, whatever the listings and documents
\* hold: Pull only ever returns nil or an error.
C12_PullNeverPanics ==
    pc[1] # "panic" /\ ~crashed

\* C13: a 404 from chain.json, assetlist.json or a path document lets the
\* pass go on to its next step with nothing stored, and any status other
\* than 200 from the commit-history endpoint, the top-level listing or the
\* path-directory listing makes the pass return an error.
C13_NotFoundTolerance ==
    [][/\ (pc[1] = "idle" /\ pc'[1] # "idle" /\ lastStatus'[1] # StatusOK)
            => pc'[1] = "ret_err"
       /\ (/\ pc[1] \in {"getChains", "getPaths"}
           /\ requests'[1] = requests[1] + 1
           /\ lastStatus'[1] # StatusOK)
            => pc'[1] = "ret_err"
       /\ (/\ pc[1] \in {"getChain", "getAssetList", "getPath"}
           /\ requests'[1] = requests[1] + 1
           /\ lastStatus'[1] = StatusNotFound)
            => /\ pc'[1] \in {"getChain", "getAssetList", "getPath", "index"}
               /\ hvars' = hvars]_vars

\* A second pass that the path-directory listing's 404 has ended, after a
\* first pass that went on past a chain.json it did not find.
C13_Witness ==
    /\ passes = 2 /\ ~aborted /\ lastUpdated > 0
    /\ pc[1] = "ret_err" /\ requests[1] = 2 /\ lastStatus[1] = StatusNotFound
    /\ \E c \in Range(startSnap[1].chains) : ~Has(chainList, c)

\* C14: in every state a request can be served from, the tag-filtered
\* query with an empty value returns, for every dimension, the collection
\* the all-paths listing returns, and with a value that has no bucket under
\* one of the four dimensions it returns an empty collection.
C14_EmptyValueAndNoBucket ==
    LET h == Snapshot
    IN  /\ \A d \in Dimensions \cup {"other"} :
              LET r == getPathsWithTag(h, d, "")
              IN  /\ ~r.panic /\ r.all
                  /\ <<RespondWithJSON(r.set)>> = PathsHandler(h)
                  /\ r.set = {h.pathList[n] : n \in DOMAIN h.pathList}
        /\ \A d \in Dimensions : \A v \in KnownTagValues \cup {"zzz"} :
              ~Has(h.pathsByTag[d], v) =>
                  LET r == getPathsWithTag(h, d, v)
                  IN  ~r.panic /\ ~r.all /\ r.list = <<>>

\* A state with a path loaded, in the middle of a pass, and a known value
\* that has a bucket under one dimension and none under another.
C14_Witness ==
    /\ Running(1)
    /\ pathList # EmptyMap
    /\ \E d \in Dimensions : \E v \in KnownTagValues :
           ~Has(pathsByTag[d], v) /\ \E e \in Dimensions : Has(pathsByTag[e], v)

\* C15: in every state the tag index has the four dimensions as keys, and no
\* request to the filtered-paths handler, whatever variables and values it
\* carries, takes the panic branch of getPathsWithTag.
C15_NoPanicFromRequests ==
    /\ Dimensions \subseteq DOMAIN pathsByTag
    /\ \A routeVars \in RouteVars :
           Panicked \notin Range(PathsFilteredHandler(Snapshot, routeVars))

\* A state in which a request for status = live is answered with a path
\* and a request with none of the four variables with an empty list.
C15_Witness ==
    /\ \E path \in KnownPaths :
           PathsFilteredHandler(Snapshot, Vars("status", "live")) = <<RespondWithJSON(<<path>>)>>
    /\ PathsFilteredHandler(Snapshot, Vars("other", "live")) = <<RespondWithJSON(<<>>)>>

\* The entries of a listing that are directories whose name holds neither
\* a '.' nor "testnets", in listing order.
IsChainDir(e) ==
    /\ e.type = "dir"
    /\ \A i \in DOMAIN e.name : e.name[i] # "."
    /\ \A i \in 1..(Len(e.name) - 7) : SubSeq(e.name, i, i + 7) # NTestnets

ChainDirs(listing) ==
    LET kept == SelectSeq(listing, IsChainDir)
    IN  [i \in 1..Len(kept) |-> kept[i].name]

\* C16: after a successful full pass the chain name listing is, in listing
\* order, the names of the entries of the top-level listing the pass read
\* that are directories with neither a '.' nor "testnets" in their name.
C16_ChainDiscovery ==
    (pc[1] = "ret_ok" /\ history[1].ok /\ history[1].list # <<>>) =>
        /\ chains = ChainDirs(fetched[1].top)
        /\ ChainsHandler(Snapshot) = <<RespondWithJSON(ChainDirs(fetched[1].top))>>

\* A full pass over a listing with a file, a dotted directory and a
\* testnets directory next to two chain directories.
C16_Witness ==
    /\ pc[1] = "ret_ok" /\ history[1].ok /\ history[1].list # <<>>
    /\ Len(chains) = 2
    /\ \E i, j, k \in DOMAIN fetched[1].top :
           /\ fetched[1].top[i].type = "file"
           /\ fetched[1].top[j].type = "dir" /\ Contains(fetched[1].top[j].name, <<".">>)
           /\ fetched[1].top[k].type = "dir" /\ fetched[1].top[k].name = NTestnets

\* C17: after a successful full pass over one registry version, with no
\* failed pass before it, every name of the path name listing whose file
\* is in the path directory has that file's document in the path-by-name
\* index, and the path query for the name returns it.
C17_DiscoveredPathsLoaded ==
    (/\ pc[1] = "ret_ok" /\ ~aborted /\ history[1].ok /\ history[1].list # <<>>
     /\ fetched[1].regs = {reg}) =>
        \A n \in Range(paths) :
            Has(Registry.path, n) =>
                /\ Has(pathList, n)
                /\ pathList[n] = Registry.path[n]
                /\ PathHandler(Snapshot, Vars("path", n)) = <<RespondWithJSON(Registry.path[n])>>

\* C18: after a successful full pass with no failed pass before it, the
\* asset query for the display name of an asset of a loaded asset list,
\* when no other asset list has that display name, returns that asset.
C18_AssetLookupFindsLoaded ==
    (pc[1] = "ret_ok" /\ ~aborted /\ history[1].ok /\ history[1].list # <<>>) =>
        \A c \in DOMAIN assetList : \A i \in DOMAIN assetList[c].Assets :
            LET asset == assetList[c].Assets[i]
            IN  (\A o \in DOMAIN assetList : \A j \in DOMAIN assetList[o].Assets :
                    assetList[o].Assets[j].Display = asset.Display => (o = c /\ j = i))
                    => AssetHandler(Snapshot, Vars("asset", asset.Display))
                           = <<RespondWithJSON(asset)>>

\* C19: the timestamp changes only in a step that takes the pass to its
\* successful return, where it becomes the current time; a step that takes
\* the pass to an error return, and every step before it, leaves it as it
\* was, so the next commit-history query asks from the same point.
C19_StampOnlyOnSuccess ==
    [][/\ lastUpdated' # lastUpdated
            => (pc[1] \in {"stale", "index"} /\ pc'[1] = "ret_ok" /\ lastUpdated' = now)
       /\ (Running(1) /\ pc'[1] \in {"ret_err", "idle", "panic"})
            => /\ lastUpdated' = lastUpdated
               /\ FormatRFC3339(lastUpdated') = FormatRFC3339(lastUpdated)]_vars

\* A full pass that fails on a document, later than the last stamp.
C19_Witness ==
    /\ pc[1] = "ret_err" /\ requests[1] >= 3
    /\ lastUpdated > 0 /\ lastUpdated < startTime[1]

\* Every value of h.chainById is a key of h.chainList, and when findChain
\* resolves a key through h.chainById it returns the document stored under
\* the chain name, not the zero value of a missing key.
ChainByIdResolves(h) ==
    /\ \A id \in DOMAIN h.chainById : Has(h.chainList, h.chainById[id])
    /\ \A key \in Keys \cup {NoName} :
           (~Has(h.chainList, key) /\ findChain(h, key).exists) =>
               /\ Has(h.chainById, key)
               /\ Has(h.chainList, h.chainById[key])
               /\ findChain(h, key).chain = h.chainList[h.chainById[key]]
               /\ findChain(h, key).chain # ZeroChain

\* C20: in every state every value of chainById is a key of the chain
\* map, so resolving a key as a chain identifier never succeeds with a
\* zero-valued Chain.
C20_ChainByIdValuesAreChains ==
    ChainByIdResolves(Snapshot)

\* A state in the middle of a pass in which both the old and the new
\* identifier of a chain resolve.
C20_Witness ==
    /\ Running(1)
    /\ findChain(Snapshot, IdA).exists /\ findChain(Snapshot, IdA2).exists
    /\ findChain(Snapshot, IdA).chain = findChain(Snapshot, NA).chain

====
